---- MODULE Spec2Model ----
(***************************************************************************)
(* Model of the premarket-breakout engine of src/trading_bot.py            *)
(* (TradingBot.update_premarket_levels, TradingBot.process_bar) driven     *)
(* session by session as Backtester.run of src/backtesting.py does.        *)
(*                                                                         *)
(* Arithmetic.  The program computes in binary floating point; the model   *)
(* computes the same expressions exactly.  A price is an integer number of *)
(* thousandths of a cent (Cent == 1000), so that level * 0.001 is exact    *)
(* for every level that is a whole number of cents.  A volume average is   *)
(* kept as the fraction num/den.                                           *)
(*                                                                         *)
(* Optional[X] is modelled as a sequence of length 0 (None) or 1.          *)
(***************************************************************************)
EXTENDS Integers, Sequences, FiniteSets

\* ---------------------------------------------------------------- bounds
\* Longest volume history (= number of process_bar calls) per ticker.
MaxHist == 3
\* Longest volume history of the runs that start from a long history.
MaxLongHist == 21
\* Longest volume history per ticker of the runs with two instruments.
MaxPairHist == 3
\* Largest number of rows of a DataFrame given to update_premarket_levels.
MaxRows == 3

\* ----------------------------------------------------- program constants
\* config.STOP_LOSS_BUFFER = 0.001 = STOP_LOSS_BUFFER_NUM / STOP_LOSS_BUFFER_DEN
STOP_LOSS_BUFFER_NUM == 1
STOP_LOSS_BUFFER_DEN == 1000
\* The price unit: a cent is STOP_LOSS_BUFFER_DEN units, so level * buffer is exact.
Cent == STOP_LOSS_BUFFER_DEN
Dollar == 100 * Cent
\* config.POSITION_SIZE
POSITION_SIZE == 1
\* TradingBot.__init__ default risk_reward (= config.RISK_REWARD_RATIO)
risk_reward == 2
\* the literal 20 of calculate_average_volume
VOLUME_LOOKBACK == 20
\* the literal 1.5 of is_strong_volume = STRONG_NUM / STRONG_DEN
STRONG_NUM == 3
STRONG_DEN == 2
\* datetime.now().date(): the wall-clock date of the run, never read again
Today == 0
\* time(4, 0), time(9, 30) as minutes after midnight
PREMARKET_START == 240
market_open == 570

\* ----------------------------------------------------------------- inputs
None == << >>
Some(x) == << x >>
Val(o) == o[1]

\* config.TICKERS
TICKERS == {"MNQ"}

Prices == {15990 * Dollar, 16010 * Dollar, 16020 * Dollar, 16080 * Dollar}
Lows == {15990 * Dollar, 16010 * Dollar, 16080 * Dollar}
Highs == {16020 * Dollar, 16080 * Dollar}
Volumes == {0, 2}
\* 09:29 and 09:30
BarTimes == {569, 570}

\* A timestamp: a datetime, of which only the time of day is read (has_time),
\* or a value without a time() method (has_time = FALSE, e.g. a plain date).
Timestamp(h, m) == [has_time |-> h, tod |-> m]
Timestamps == {Timestamp(TRUE, m) : m \in BarTimes} \cup {Timestamp(FALSE, 0)}

\* Well-formed bars (low <= close <= high); 'open' is never read.
Bars == {b \in [timestamp : Timestamps, high : Highs, low : Lows,
                close : Prices, volume : Volumes] :
           b.low <= b.close /\ b.close <= b.high}

NoBar == [timestamp |-> Timestamp(FALSE, 0), high |-> 0, low |-> 0, close |-> 0, volume |-> 0]

\* Rows of the DataFrame given to update_premarket_levels: time of day, high, low.
\* Inside the window [04:00, 09:30): 04:00 and 09:29; outside: 03:59 and 09:30.
Row(m, h, l) == [tod |-> m, high |-> h, low |-> l]
Rows == {Row(240, 16010 * Dollar, 15990 * Dollar), Row(569, 16020 * Dollar, 16010 * Dollar),
         Row(239, 16080 * Dollar, 15990 * Dollar), Row(570, 16080 * Dollar, 15990 * Dollar)}
\* A DataFrame is taken as the set of its rows: the filter, len(), max() and
\* min() of update_premarket_levels do not depend on row order or repetition.
DataFrames == {data \in SUBSET Rows : Cardinality(data) <= MaxRows}

\* ------------------------------------------------------------------ state
VARIABLES
  tickers,            \* self.tickers
  premarket_levels,   \* self.premarket_levels : ticker -> Optional[PremarketLevels]
  completed_trades,   \* self.completed_trades : list of Trade
  volume_history,     \* self.volume_history   : ticker -> list of volumes
  open_trades,        \* self.open_trades      : ticker -> Optional[Trade]
  ret,                \* return value of the last call (Optional[Trade])
  pm_supplied,        \* ticker -> levels were produced from this session's premarket bars
  n_trades,           \* number of Trade objects created so far (object identity)
  last                \* the last call: operation, ticker and its bar or data

vars == << tickers, premarket_levels, completed_trades, volume_history, open_trades,
           ret, pm_supplied, n_trades, last >>

\* --------------------------------------------------------- pure functions
RECURSIVE SumSeq(_)
SumSeq(s) == IF s = << >> THEN 0 ELSE s[1] + SumSeq(Tail(s))

\* premarket_data['high'].max() and premarket_data['low'].min()
MaxHigh(rows) == CHOOSE h \in {r.high : r \in rows} : \A r \in rows : r.high <= h
MinLow(rows) == CHOOSE l \in {r.low : r \in rows} : \A r \in rows : r.low >= l

\* data[(time >= 04:00) & (time < 09:30)]
PremarketRowsThroughOpen(data) == {r \in data : r.tod >= PREMARKET_START /\ r.tod <= market_open}
PremarketRows(data) == {r \in data : r.tod >= PREMARKET_START /\ r.tod < market_open}

\* volumes[-20:] when there are at least 20, else all of them
LastVolumesAll(volumes) == volumes
LastVolumes(volumes) ==
  IF Len(volumes) < VOLUME_LOOKBACK THEN volumes
  ELSE SubSeq(volumes, Len(volumes) - VOLUME_LOOKBACK + 1, Len(volumes))

\* calculate_average_volume: the mean as the fraction num/den, 0 when empty
calculate_average_volume(volumes) ==
  IF volumes = << >> THEN [num |-> 0, den |-> 1]
  ELSE [num |-> SumSeq(LastVolumes(volumes)), den |-> Len(LastVolumes(volumes))]

\* is_strong_volume: current_volume >= avg_volume * 1.5
is_strong_volume(current_volume, avg_volume) ==
  current_volume * avg_volume.den * STRONG_DEN >= avg_volume.num * STRONG_NUM

\* Line 126: self.volume_history[ticker].append(volume)
AppendVolumeShared(history, t, volume) == [u \in DOMAIN history |-> Append(history[u], volume)]
AppendVolume(history, t, volume) == [history EXCEPT ![t] = Append(@, volume)]

\* level * config.STOP_LOSS_BUFFER
BufferOf(level) == (level * STOP_LOSS_BUFFER_NUM) \div STOP_LOSS_BUFFER_DEN

\* Lines 150-155: the exit price chosen for an open trade on a bar.
ExitPriceTPFirst(trade, bar) ==
  IF bar.high >= trade.take_profit THEN Some(trade.take_profit)
  ELSE IF bar.low <= trade.stop_loss THEN Some(trade.stop_loss)
  ELSE None
ExitPriceByDirection(trade, bar) ==
  IF trade.direction = "LONG"
  THEN IF bar.low <= trade.stop_loss THEN Some(trade.stop_loss)
       ELSE IF bar.high >= trade.take_profit THEN Some(trade.take_profit)
       ELSE None
  ELSE IF bar.high >= trade.stop_loss THEN Some(trade.stop_loss)
       ELSE IF bar.low <= trade.take_profit THEN Some(trade.take_profit)
       ELSE None
ExitPrice(trade, bar) ==
  IF bar.low <= trade.stop_loss THEN Some(trade.stop_loss)
  ELSE IF bar.high >= trade.take_profit THEN Some(trade.take_profit)
  ELSE None

\* Lines 158-164: the trade after it has been closed at exit_price on bar.
CloseTradeNoExitTime(trade, bar, exit_price) ==
  [trade EXCEPT !.exit_price = Some(exit_price),
                !.pnl = Some(IF trade.direction = "LONG"
                             THEN (exit_price - trade.entry_price) * POSITION_SIZE
                             ELSE (trade.entry_price - exit_price) * POSITION_SIZE),
                !.status = "CLOSED"]
CloseTradeLongPnl(trade, bar, exit_price) ==
  [trade EXCEPT !.exit_price = Some(exit_price),
                !.exit_time = Some(bar.timestamp),
                !.pnl = Some((exit_price - trade.entry_price) * POSITION_SIZE),
                !.status = "CLOSED"]
CloseTrade(trade, bar, exit_price) ==
  [trade EXCEPT !.exit_price = Some(exit_price),
                !.exit_time = Some(bar.timestamp),
                !.pnl = Some(IF trade.direction = "LONG"
                             THEN (exit_price - trade.entry_price) * POSITION_SIZE
                             ELSE (trade.entry_price - exit_price) * POSITION_SIZE),
                !.status = "CLOSED"]

\* Lines 135-139 and 171: the entry block runs.
EntryAllowedAnyTime(open_trade, bar) == open_trade = None
EntryAllowedOverOpen(open_trade, bar) ==
  bar.timestamp.has_time /\ bar.timestamp.tod >= market_open
EntryAllowed(open_trade, bar) ==
  /\ open_trade = None
  /\ bar.timestamp.has_time
  /\ bar.timestamp.tod >= market_open

\* Line 173: the volume gate, on the history that already holds the bar.
VolumeGateOpen(volumes, bar) == TRUE
VolumeGate(volumes, bar) ==
  is_strong_volume(bar.volume, calculate_average_volume(volumes))

\* Trade(...): a new open trade; id is the identity of the object.
NewTrade(t, dir, bar, sl, tp, id) ==
  [ticker |-> t, direction |-> dir, entry_price |-> bar.close, stop_loss |-> sl,
   take_profit |-> tp, entry_time |-> bar.timestamp, exit_price |-> None,
   exit_time |-> None, pnl |-> None, status |-> "OPEN", id |-> id]

\* Lines 176-186
LongTradeBufferAbove(t, levels, bar, id) ==
  LET entry == bar.close
      sl == levels.high + BufferOf(levels.high)
      tp == entry + (entry - sl) * risk_reward
  IN NewTrade(t, "LONG", bar, sl, tp, id)
LongTrade(t, levels, bar, id) ==
  LET entry == bar.close
      sl == levels.high - BufferOf(levels.high)
      tp == entry + (entry - sl) * risk_reward
  IN NewTrade(t, "LONG", bar, sl, tp, id)

\* Lines 193-203
ShortTradeBufferBelow(t, levels, bar, id) ==
  LET entry == bar.close
      sl == levels.low - BufferOf(levels.low)
      tp == entry - (sl - entry) * risk_reward
  IN NewTrade(t, "SHORT", bar, sl, tp, id)
ShortTrade(t, levels, bar, id) ==
  LET entry == bar.close
      sl == levels.low + BufferOf(levels.low)
      tp == entry - (sl - entry) * risk_reward
  IN NewTrade(t, "SHORT", bar, sl, tp, id)

\* Lines 171-206: the trade the entry block opens on this bar, if any.
EntryTrade(t, levels, open_trade, volumes, bar, id) ==
  IF EntryAllowed(open_trade, bar) /\ VolumeGate(volumes, bar)
  THEN IF bar.close > levels.high THEN Some(LongTrade(t, levels, bar, id))
       ELSE IF bar.close < levels.low THEN Some(ShortTrade(t, levels, bar, id))
       ELSE None
  ELSE None

\* Lines 189 and 206: what process_bar returns after opening a trade.
EntryReturnTrade(trade) == Some(trade)
EntryReturn(trade) == None

\* Lines 166-168: the open slot after an exit; process_bar returns at once.
SlotAfterExitReenter(t, levels, volumes, bar, id) ==
  EntryTrade(t, levels, None, volumes, bar, id)
SlotAfterExit(t, levels, volumes, bar, id) == None

\* Lines 85-96: the stored levels after update_premarket_levels.
NewLevelsClearing(old, premarket_data) ==
  IF Cardinality(premarket_data) = 0 THEN None
  ELSE Some([high |-> MaxHigh(premarket_data), low |-> MinLow(premarket_data), date |-> Today])
NewLevels(old, premarket_data) ==
  IF Cardinality(premarket_data) = 0 THEN old
  ELSE Some([high |-> MaxHigh(premarket_data), low |-> MinLow(premarket_data), date |-> Today])

\* ------------------------------------------------------------------- Init
\* TradingBot.__init__
Init ==
  /\ tickers = TICKERS
  /\ premarket_levels = [t \in TICKERS |-> None]
  /\ completed_trades = << >>
  /\ volume_history = [t \in TICKERS |-> << >>]
  /\ open_trades = [t \in TICKERS |-> None]
  /\ ret = None
  /\ pm_supplied = [t \in TICKERS |-> FALSE]
  /\ n_trades = 0
  /\ last = [op |-> "init", ticker |-> "", bar |-> NoBar, data |-> {}]

\* ---------------------------------------------------------------- actions
\* TradingBot.update_premarket_levels(ticker, data)
UpdatePremarketLevels(t, data) ==
  LET premarket_data == PremarketRows(data) IN
  /\ t \in tickers
  /\ premarket_levels' = [premarket_levels EXCEPT ![t] = NewLevels(@, premarket_data)]
  /\ pm_supplied' = [pm_supplied EXCEPT ![t] = @ \/ Cardinality(premarket_data) > 0]
  /\ ret' = None
  /\ last' = [op |-> "update_premarket_levels", ticker |-> t, bar |-> NoBar, data |-> data]
  /\ UNCHANGED << tickers, completed_trades, volume_history, open_trades, n_trades >>

\* TradingBot.process_bar(ticker, bar)
ProcessBar(t, bar) ==
  LET appended == AppendVolume(volume_history, t, bar.volume)
      volumes == appended[t]
      levels == premarket_levels[t]
      open_trade == open_trades[t]
      exit_price == IF open_trade = None THEN None ELSE ExitPrice(Val(open_trade), bar)
      entry == IF levels = None THEN None
               ELSE EntryTrade(t, Val(levels), open_trade, volumes, bar, n_trades + 1)
  IN
  /\ t \in tickers
  /\ volume_history' = appended
  /\ last' = [op |-> "process_bar", ticker |-> t, bar |-> bar, data |-> {}]
  /\ IF levels = None
     THEN /\ ret' = None
          /\ UNCHANGED << completed_trades, open_trades, n_trades >>
     ELSE IF exit_price # None
     THEN LET closed == CloseTrade(Val(open_trade), bar, Val(exit_price))
              slot == SlotAfterExit(t, Val(levels), volumes, bar, n_trades + 1) IN
          /\ completed_trades' = Append(completed_trades, closed)
          /\ open_trades' = [open_trades EXCEPT ![t] = slot]
          /\ n_trades' = IF slot = None THEN n_trades ELSE n_trades + 1
          /\ ret' = Some(closed)
     ELSE IF entry # None
     THEN /\ open_trades' = [open_trades EXCEPT ![t] = entry]
          /\ n_trades' = n_trades + 1
          /\ ret' = EntryReturn(Val(entry))
          /\ UNCHANGED completed_trades
     ELSE /\ ret' = None
          /\ UNCHANGED << completed_trades, open_trades, n_trades >>
  /\ UNCHANGED << tickers, premarket_levels, pm_supplied >>

\* Backtester.run: the loop over all_dates moves to the next date; no
\* premarket bars of the new date have been supplied yet.
NextSession ==
  /\ pm_supplied' = [t \in tickers |-> FALSE]
  /\ ret' = None
  /\ last' = [op |-> "next_session", ticker |-> "", bar |-> NoBar, data |-> {}]
  /\ UNCHANGED << tickers, premarket_levels, completed_trades, volume_history,
                  open_trades, n_trades >>

Next ==
  \/ \E t \in TICKERS, data \in DataFrames : UpdatePremarketLevels(t, data)
  \/ \E t \in TICKERS, bar \in Bars :
       Len(volume_history[t]) < MaxHist /\ ProcessBar(t, bar)
  \/ NextSession

Spec == Init /\ [][Next]_vars

\* ------------------------------------------- long volume histories (C13)
\* The engine after VOLUME_LOOKBACK - 1 bars were processed before any levels
\* existed: the first bar had volume a, the others volume b.
VolumesLong == {0, 2, 100}
LongHistories ==
  {[i \in 1..(VOLUME_LOOKBACK - 1) |-> IF i = 1 THEN a ELSE b] : a \in VolumesLong, b \in VolumesLong}
\* Regular-hours bars that touch no stop or target of a trade opened here.
BarsVol == [timestamp : {Timestamp(TRUE, market_open)}, high : {16020 * Dollar},
            low : {16010 * Dollar}, close : {16010 * Dollar, 16020 * Dollar},
            volume : VolumesLong]

InitVol ==
  /\ tickers = TICKERS
  /\ premarket_levels = [t \in TICKERS |-> None]
  /\ completed_trades = << >>
  /\ volume_history \in [TICKERS -> LongHistories]
  /\ open_trades = [t \in TICKERS |-> None]
  /\ ret = None
  /\ pm_supplied = [t \in TICKERS |-> FALSE]
  /\ n_trades = 0
  /\ last = [op |-> "init", ticker |-> "", bar |-> NoBar, data |-> {}]

NextVol ==
  \/ \E t \in TICKERS, data \in DataFrames : UpdatePremarketLevels(t, data)
  \/ \E t \in TICKERS, bar \in BarsVol :
       Len(volume_history[t]) < MaxLongHist /\ ProcessBar(t, bar)

SpecVol == InitVol /\ [][NextVol]_vars

\* ------------------------------------------------- malformed bars (C16)
\* Bars whose high is below their low, as an external feed may deliver them.
MalformedBars == [timestamp : Timestamps, high : {16020 * Dollar}, low : {16080 * Dollar},
                  close : {16020 * Dollar, 16080 * Dollar}, volume : Volumes]

NextRaw ==
  \/ \E t \in TICKERS, data \in DataFrames : UpdatePremarketLevels(t, data)
  \/ \E t \in TICKERS, bar \in Bars \cup MalformedBars :
       Len(volume_history[t]) < MaxHist /\ ProcessBar(t, bar)

SpecRaw == Init /\ [][NextRaw]_vars

\* ------------------------------------------------ two instruments (C17)
\* TradingBot(tickers=['MNQ', 'MES']): calls for the two instruments arrive
\* in any interleaving.
TICKERS2 == {"MNQ", "MES"}
\* Regular-hours bars closing at 16020: one that touches neither the stop nor
\* the target of a LONG trade opened at 16020, one that touches both, one that
\* touches the target only.
BarsPair ==
  {b \in [timestamp : {Timestamp(TRUE, market_open)}, high : Highs,
          low : {15990 * Dollar, 16010 * Dollar}, close : {16020 * Dollar}, volume : Volumes] :
     b.low = 15990 * Dollar => b.high = 16080 * Dollar}
\* No rows, or the 04:00 row alone.
DataPair == {data \in DataFrames : \A r \in data : r.tod = PREMARKET_START}

InitPair ==
  /\ tickers = TICKERS2
  /\ premarket_levels = [t \in TICKERS2 |-> None]
  /\ completed_trades = << >>
  /\ volume_history = [t \in TICKERS2 |-> << >>]
  /\ open_trades = [t \in TICKERS2 |-> None]
  /\ ret = None
  /\ pm_supplied = [t \in TICKERS2 |-> FALSE]
  /\ n_trades = 0
  /\ last = [op |-> "init", ticker |-> "", bar |-> NoBar, data |-> {}]

NextPair ==
  \/ \E t \in TICKERS2, data \in DataPair : UpdatePremarketLevels(t, data)
  \/ \E t \in TICKERS2, bar \in BarsPair :
       Len(volume_history[t]) < MaxPairHist /\ ProcessBar(t, bar)

SpecPair == InitPair /\ [][NextPair]_vars

\* The engine of one instrument run on its own: its levels, its history, its
\* open trade and the list of its closed trades, Trade objects without identity.
SoloUpdate(p, data) == [p EXCEPT !.levels = NewLevels(@, PremarketRows(data))]
SoloProcessBar(p, t, bar) ==
  LET volumes == Append(p.history, bar.volume)
      exit_price == IF p.open = None THEN None ELSE ExitPrice(Val(p.open), bar)
      entry == IF p.levels = None THEN None
               ELSE EntryTrade(t, Val(p.levels), p.open, volumes, bar, 0)
  IN IF p.levels = None THEN [p EXCEPT !.history = volumes]
     ELSE IF exit_price # None
     THEN [p EXCEPT !.history = volumes, !.open = None,
                    !.closed = Append(@, CloseTrade(Val(p.open), bar, Val(exit_price)))]
     ELSE IF entry # None THEN [p EXCEPT !.history = volumes, !.open = entry]
     ELSE [p EXCEPT !.history = volumes]

\* ----------------------------------------------------------------- claims
\* The call that produced the current state.
IsProcessBar == last.op = "process_bar"
IsUpdate == last.op = "update_premarket_levels"

\* Sum and size of the last min(20, N) entries of a history.
WindowLen(h) == IF Len(h) <= 20 THEN Len(h) ELSE 20
WindowSum(h) == SumSeq(SubSeq(h, Len(h) - WindowLen(h) + 1, Len(h)))
\* v >= 1.5 * mean of the window, and its negation, without division.
Strong(v, h) == 2 * v * WindowLen(h) >= 3 * WindowSum(h)

\* The bar breaks out of the stored levels of its ticker.
BreaksOut(t, b) ==
  /\ premarket_levels[t] # None
  /\ \/ b.close > Val(premarket_levels[t]).high
     \/ b.close < Val(premarket_levels[t]).low
RegularHours(b) == b.timestamp.has_time /\ b.timestamp.tod >= 570

OpenIds == {Val(open_trades[t]).id : t \in {u \in tickers : open_trades[u] # None}}
ClosedIds == {completed_trades[i].id : i \in 1..Len(completed_trades)}

\* C1: every trade ever opened (ids 1..n_trades) is exactly one of: the
\* trade in the open slot of its own instrument, or one entry of
\* completed_trades; so no open trade is ever overwritten or lost and an
\* instrument never has more than its one slot's trade open.
C1_OneOpenTradeNoneLost ==
  /\ OpenIds \cup ClosedIds = 1..n_trades
  /\ OpenIds \cap ClosedIds = {}
  /\ Cardinality(ClosedIds) = Len(completed_trades)
  /\ \A t \in tickers : open_trades[t] # None =>
       /\ Len(open_trades[t]) = 1
       /\ Val(open_trades[t]).ticker = t

\* C1 witness: a bar at 09:30 or later that breaks out on strong volume is
\* processed while the slot is occupied, fires no exit, and the first trade
\* is still the one in the slot.
C1_Witness ==
  /\ IsProcessBar
  /\ open_trades[last.ticker] # None
  /\ Val(open_trades[last.ticker]).id = 1
  /\ n_trades = 1
  /\ Len(volume_history[last.ticker]) >= 2
  /\ RegularHours(last.bar)
  /\ BreaksOut(last.ticker, last.bar)
  /\ Strong(last.bar.volume, volume_history[last.ticker])

\* C2: a bar with low <= stop_loss and high >= take_profit processed while a
\* trade (LONG or SHORT) is open closes that trade at its stop_loss.
C2_TieBreakStopLoss ==
  [][\A t \in tickers :
       (/\ open_trades[t] # None
        /\ last'.op = "process_bar" /\ last'.ticker = t
        /\ last'.bar.low <= Val(open_trades[t]).stop_loss
        /\ last'.bar.high >= Val(open_trades[t]).take_profit)
       => /\ ret' # None
          /\ Val(ret').id = Val(open_trades[t]).id
          /\ Val(ret').exit_price = Some(Val(open_trades[t]).stop_loss)
          /\ Val(ret').exit_price # Some(Val(open_trades[t]).take_profit)
          /\ open_trades'[t] = None]_vars

\* C2 witness: a LONG trade has just been closed by a bar that touched both
\* its stop_loss and its take_profit.
C2_Witness ==
  /\ IsProcessBar
  /\ ret # None
  /\ Val(ret).direction = "LONG"
  /\ last.bar.low <= Val(ret).stop_loss
  /\ last.bar.high >= Val(ret).take_profit
  /\ Val(ret).stop_loss < Val(ret).take_profit

\* C3: a process_bar call that opens a trade has bar.volume >= 1.5 * the
\* average of the history as it stands with that bar appended, that is, no
\* trade is opened when the volume is strictly below 1.5 times the average.
C3_VolumeGate ==
  [][n_trades' # n_trades =>
       /\ last'.op = "process_bar"
       /\ Strong(last'.bar.volume, volume_history'[last'.ticker])]_vars

\* C3 witness: the instrument is flat with levels, a bar at 09:30 or later
\* closes above the premarket high, its volume is below 1.5 times a positive
\* average, and no trade was opened.
C3_Witness ==
  /\ IsProcessBar
  /\ open_trades[last.ticker] = None
  /\ ret = None
  /\ RegularHours(last.bar)
  /\ BreaksOut(last.ticker, last.bar)
  /\ WindowSum(volume_history[last.ticker]) > 0
  /\ ~Strong(last.bar.volume, volume_history[last.ticker])

IsClosedTrade(tr) ==
  /\ tr.status = "CLOSED"
  /\ tr.exit_price # None /\ tr.exit_time # None /\ tr.pnl # None
IsOpenTrade(tr) ==
  /\ tr.status = "OPEN"
  /\ tr.exit_price = None /\ tr.exit_time = None /\ tr.pnl = None

\* C4: every trade of completed_trades is CLOSED with exit_price, exit_time
\* and pnl set; every trade in an open slot is OPEN with the three unset; no
\* trade is both in an open slot and in completed_trades.
C4_TradeStatus ==
  /\ \A i \in 1..Len(completed_trades) : IsClosedTrade(completed_trades[i])
  /\ \A t \in tickers : open_trades[t] # None => IsOpenTrade(Val(open_trades[t]))
  /\ \A t \in tickers : \A i \in 1..Len(completed_trades) :
       open_trades[t] # None => Val(open_trades[t]).id # completed_trades[i].id

\* C4 witness: a closed trade in the log and a later trade in the open slot.
C4_Witness ==
  /\ Len(completed_trades) >= 1
  /\ \E t \in tickers : open_trades[t] # None /\ Val(open_trades[t]).id = 2

C6_NoPremarketNoTrade ==
  [][(last'.op = "process_bar" /\ ~pm_supplied[last'.ticker])
       => (ret' = None /\ n_trades' = n_trades)]_vars

\* Scenario A: the instrument is flat, its levels are high=16010, low=15990,
\* and the bar being processed closes at 16020 at 09:30 or later on a volume
\* that passes the gate.
ScenarioA(t) ==
  /\ last'.op = "process_bar" /\ last'.ticker = t
  /\ open_trades[t] = None
  /\ premarket_levels[t] # None
  /\ Val(premarket_levels[t]).high = 16010 * Dollar
  /\ Val(premarket_levels[t]).low = 15990 * Dollar
  /\ last'.bar.close = 16020 * Dollar
  /\ RegularHours(last'.bar)
  /\ Strong(last'.bar.volume, volume_history'[t])

OpensLong(t, entry, sl, tp) ==
  /\ open_trades'[t] # None
  /\ Val(open_trades'[t]).direction = "LONG"
  /\ Val(open_trades'[t]).entry_price = entry
  /\ Val(open_trades'[t]).stop_loss = sl
  /\ Val(open_trades'[t]).take_profit = tp

\* C7 as stated: Scenario A opens a LONG trade with entry_price=16020,
\* stop_loss=15994.01 and take_profit=16071.98.
C7_ScenarioA_AsStated ==
  [][\A t \in tickers : ScenarioA(t) =>
       OpensLong(t, 16020 * Dollar, 1599401 * Cent, 1607198 * Cent)]_vars

\* C7 amended: Scenario A opens a LONG trade with entry_price=16020,
\* stop_loss=15993.99 (16010 - 16010*0.001) and take_profit=16072.02
\* (16020 + (16020 - 15993.99)*2).
C7_ScenarioA ==
  [][\A t \in tickers : ScenarioA(t) =>
       OpensLong(t, 16020 * Dollar, 1599399 * Cent, 1607202 * Cent)]_vars

\* C7 witness: the state right after the Scenario A bar: the LONG trade it
\* opened is in the slot.
C7_Witness ==
  /\ IsProcessBar
  /\ ret = None
  /\ premarket_levels[last.ticker] # None
  /\ Val(premarket_levels[last.ticker]).high = 16010 * Dollar
  /\ Val(premarket_levels[last.ticker]).low = 15990 * Dollar
  /\ last.bar.close = 16020 * Dollar
  /\ RegularHours(last.bar)
  /\ open_trades[last.ticker] # None
  /\ Val(open_trades[last.ticker]).id = n_trades
  /\ Val(open_trades[last.ticker]).direction = "LONG"
  /\ Val(open_trades[last.ticker]).entry_time = last.bar.timestamp
  /\ last.bar.volume > 0
  /\ Strong(last.bar.volume, volume_history[last.ticker])

\* The state of an instrument in the state machine of the engine.
State(t) ==
  IF open_trades[t] # None THEN "IN_POSITION"
  ELSE IF premarket_levels[t] = None THEN "NO_LEVELS"
  ELSE "FLAT"

\* C8: the state of an instrument changes only NO_LEVELS -> FLAT, by an
\* update_premarket_levels call for it whose data has a bar in [04:00, 09:30);
\* FLAT -> IN_POSITION, by a process_bar call for it that opens a trade; and
\* IN_POSITION -> FLAT, by a process_bar call for it that closes the trade at
\* its stop_loss or take_profit.  An open trade exists only with levels.
C8_StateMachine ==
  [][\A t \in tickers :
       /\ State(t) # State(t)' =>
            \/ /\ State(t) = "NO_LEVELS" /\ State(t)' = "FLAT"
               /\ last'.op = "update_premarket_levels" /\ last'.ticker = t
               /\ \E r \in last'.data : r.tod >= 240 /\ r.tod < 570
            \/ /\ State(t) = "FLAT" /\ State(t)' = "IN_POSITION"
               /\ last'.op = "process_bar" /\ last'.ticker = t
               /\ n_trades' = n_trades + 1
               /\ Val(open_trades'[t]).id = n_trades'
            \/ /\ State(t) = "IN_POSITION" /\ State(t)' = "FLAT"
               /\ last'.op = "process_bar" /\ last'.ticker = t
               /\ ret' # None
               /\ Val(ret').id = Val(open_trades[t]).id
               /\ Val(ret').exit_price \in {Some(Val(ret').stop_loss), Some(Val(ret').take_profit)}
       /\ open_trades'[t] # None => premarket_levels'[t] # None]_vars

\* C8 witness: an instrument that went NO_LEVELS -> FLAT -> IN_POSITION and
\* has just returned to FLAT by an exit.
C8_Witness ==
  /\ IsProcessBar
  /\ ret # None
  /\ State(last.ticker) = "FLAT"
  /\ Len(completed_trades) = 1

\* C9: a trade is opened only on a bar whose timestamp has a time of day at
\* or after 09:30; and while a trade is open, every bar with low <= stop_loss
\* or high >= take_profit closes it, whatever the bar's time of day.
C9_EntryHoursExitAlways ==
  [][/\ n_trades' # n_trades =>
          /\ last'.op = "process_bar"
          /\ last'.bar.timestamp.has_time
          /\ last'.bar.timestamp.tod >= 570
     /\ \A t \in tickers :
          (/\ last'.op = "process_bar" /\ last'.ticker = t
           /\ open_trades[t] # None
           /\ \/ last'.bar.low <= Val(open_trades[t]).stop_loss
              \/ last'.bar.high >= Val(open_trades[t]).take_profit)
          => (ret' # None /\ Val(ret').exit_time = Some(last'.bar.timestamp))]_vars

\* C9 witness: a bar before 09:30 broke out on strong volume with the slot
\* empty and opened nothing.
C9_Witness ==
  /\ IsProcessBar
  /\ last.bar.timestamp.has_time
  /\ last.bar.timestamp.tod < 570
  /\ BreaksOut(last.ticker, last.bar)
  /\ Strong(last.bar.volume, volume_history[last.ticker])
  /\ ret = None
  /\ open_trades[last.ticker] = None

\* C10: a process_bar call that closes a trade opens none (the slot is empty
\* afterwards), and a call that opens a trade closes none: the new trade is
\* OPEN in the slot, nothing is returned or logged.
C10_ExitOrEntry ==
  [][/\ ret' # None =>
          /\ n_trades' = n_trades
          /\ open_trades'[last'.ticker] = None
          /\ \A t \in tickers : last'.ticker = t => State(t)' = "FLAT"
     /\ n_trades' # n_trades =>
          /\ ret' = None
          /\ Len(completed_trades') = Len(completed_trades)
          /\ open_trades'[last'.ticker] # None
          /\ Val(open_trades'[last'.ticker]).id = n_trades'
          /\ Val(open_trades'[last'.ticker]).status = "OPEN"
          /\ Val(open_trades'[last'.ticker]).exit_price = None]_vars

\* C10 witness: a trade was closed by a bar at 09:30 or later that also
\* breaks out on strong volume, and the slot is empty.
C10_Witness ==
  /\ IsProcessBar
  /\ ret # None
  /\ RegularHours(last.bar)
  /\ BreaksOut(last.ticker, last.bar)
  /\ Strong(last.bar.volume, volume_history[last.ticker])
  /\ open_trades[last.ticker] = None

\* The rows of a DataFrame whose time of day is in [04:00, 09:30).
InWindow(data) == {r \in data : 240 <= r.tod /\ r.tod < 570}

\* C11: an update_premarket_levels call whose data has no bar in
\* [04:00, 09:30) returns normally and leaves the stored levels, the open
\* trades, the volume histories and completed_trades as they were.
C11_EmptyPremarketNoChange ==
  [][(last'.op = "update_premarket_levels" /\ InWindow(last'.data) = {})
       => /\ ret' = None
          /\ premarket_levels' = premarket_levels
          /\ open_trades' = open_trades
          /\ volume_history' = volume_history
          /\ completed_trades' = completed_trades]_vars

\* C11 witness: an update whose rows are all outside the window has just
\* run on an engine that holds levels, an open trade and a closed trade.
C11_Witness ==
  /\ IsUpdate
  /\ last.data # {}
  /\ InWindow(last.data) = {}
  /\ premarket_levels[last.ticker] # None
  /\ open_trades[last.ticker] # None
  /\ Len(completed_trades) >= 1

\* C12: an update_premarket_levels call whose data has a bar in
\* [04:00, 09:30) stores high = the largest bar.high and low = the smallest
\* bar.low of exactly the bars in the window; stored levels have high >= low.
C12_LevelsFromWindow ==
  [][\A t \in tickers :
       /\ (last'.op = "update_premarket_levels" /\ last'.ticker = t
           /\ InWindow(last'.data) # {})
          => /\ premarket_levels'[t] # None
             /\ \E r \in InWindow(last'.data) : r.high = Val(premarket_levels'[t]).high
             /\ \A r \in InWindow(last'.data) : r.high <= Val(premarket_levels'[t]).high
             /\ \E r \in InWindow(last'.data) : r.low = Val(premarket_levels'[t]).low
             /\ \A r \in InWindow(last'.data) : r.low >= Val(premarket_levels'[t]).low
       /\ premarket_levels'[t] # None
          => Val(premarket_levels'[t]).high >= Val(premarket_levels'[t]).low]_vars

\* C12 witness: the data held two bars in the window and one at 09:30 with a
\* higher high; the stored high is below that bar's high.
C12_Witness ==
  /\ IsUpdate
  /\ Cardinality(InWindow(last.data)) = 2
  /\ \E r \in last.data : r.tod = 570 /\ r.high > Val(premarket_levels[last.ticker]).high
  /\ Val(premarket_levels[last.ticker]).high = 16020 * Dollar
  /\ Val(premarket_levels[last.ticker]).low = 15990 * Dollar

\* C13: every process_bar call appends the bar's volume to the history of
\* its instrument, whatever the state; the average computed on that history
\* is the mean of its last min(20, N) entries (0 for the empty history); and
\* a flat instrument with levels, on a bar at 09:30 or later that closes above
\* the premarket high, opens a trade exactly when bar.volume >= 1.5 * that mean.
C13_RollingAverage ==
  [][\A t \in tickers :
       (last'.op = "process_bar" /\ last'.ticker = t)
       => /\ volume_history'[t] = Append(volume_history[t], last'.bar.volume)
          /\ calculate_average_volume(volume_history'[t]).num * WindowLen(volume_history'[t])
               = WindowSum(volume_history'[t]) * calculate_average_volume(volume_history'[t]).den
          /\ calculate_average_volume(<< >>).num = 0
          /\ (/\ open_trades[t] = None
              /\ premarket_levels[t] # None
              /\ RegularHours(last'.bar)
              /\ last'.bar.close > Val(premarket_levels[t]).high)
             => (n_trades' # n_trades <=> Strong(last'.bar.volume, volume_history'[t]))]_vars

\* C13 witness: the 21st bar opened a trade on volume 2 because the first
\* volume, 100, had left the window; against the mean of all 21 volumes the
\* bar would have been too weak.
C13_Witness ==
  /\ IsProcessBar
  /\ Len(volume_history[last.ticker]) = 21
  /\ volume_history[last.ticker][1] = 100
  /\ last.bar.volume = 2
  /\ open_trades[last.ticker] # None
  /\ Val(open_trades[last.ticker]).id = n_trades
  /\ n_trades = 1
  /\ 2 * last.bar.volume * 21 < 3 * SumSeq(volume_history[last.ticker])

\* The entry case: the instrument is flat with levels and the bar being
\* processed is at 09:30 or later and passes the volume gate.
EntryFires(t) ==
  /\ last'.op = "process_bar" /\ last'.ticker = t
  /\ open_trades[t] = None
  /\ premarket_levels[t] # None
  /\ RegularHours(last'.bar)
  /\ Strong(last'.bar.volume, volume_history'[t])

\* C14: in the entry case, close > levels.high opens a LONG trade with
\* entry = close, stop_loss = high * (1 - 0.001) and take_profit = entry +
\* (entry - stop_loss) * 2; otherwise close < levels.low opens a SHORT trade
\* with entry = close, stop_loss = low * (1 + 0.001) and take_profit = entry -
\* (stop_loss - entry) * 2; otherwise no trade is opened.
C14_EntryFormulas ==
  [][\A t \in tickers : EntryFires(t) =>
       LET H == Val(premarket_levels[t]).high
           L == Val(premarket_levels[t]).low
           c == last'.bar.close
           tr == Val(open_trades'[t])
       IN IF c > H
          THEN /\ open_trades'[t] # None
               /\ tr.direction = "LONG" /\ tr.entry_price = c
               /\ H % 1000 = 0 /\ tr.stop_loss = (H \div 1000) * 999
               /\ tr.take_profit = c + (c - tr.stop_loss) * 2
          ELSE IF c < L
          THEN /\ open_trades'[t] # None
               /\ tr.direction = "SHORT" /\ tr.entry_price = c
               /\ L % 1000 = 0 /\ tr.stop_loss = (L \div 1000) * 1001
               /\ tr.take_profit = c - (tr.stop_loss - c) * 2
          ELSE open_trades'[t] = None /\ n_trades' = n_trades]_vars

\* C14 witness: a SHORT trade has just been opened by a bar that closed
\* below the premarket low.
C14_Witness ==
  /\ IsProcessBar
  /\ ret = None
  /\ open_trades[last.ticker] # None
  /\ Val(open_trades[last.ticker]).direction = "SHORT"
  /\ Val(open_trades[last.ticker]).id = n_trades
  /\ Val(open_trades[last.ticker]).entry_time = last.bar.timestamp
  /\ last.bar.close < Val(premarket_levels[last.ticker]).low
  /\ last.bar.volume > 0

\* C15: a trade returned by process_bar has exit_price equal to its
\* stop_loss or its take_profit, exit_time equal to the timestamp of the bar
\* of that call, and pnl = (exit_price - entry_price) * 1 if LONG,
\* (entry_price - exit_price) * 1 if SHORT; so has every trade of the log.
PnlRight(tr) ==
  /\ tr.exit_price # None /\ tr.pnl # None
  /\ Val(tr.exit_price) \in {tr.stop_loss, tr.take_profit}
  /\ tr.direction = "LONG" => Val(tr.pnl) = Val(tr.exit_price) - tr.entry_price
  /\ tr.direction = "SHORT" => Val(tr.pnl) = tr.entry_price - Val(tr.exit_price)
C15_ExitFields ==
  [][/\ ret' # None =>
          /\ PnlRight(Val(ret'))
          /\ Val(ret').exit_time = Some(last'.bar.timestamp)
     /\ \A i \in 1..Len(completed_trades') : PnlRight(completed_trades'[i])]_vars

\* C15 witness: a SHORT trade has just been closed with a non-zero pnl.
C15_Witness ==
  /\ IsProcessBar
  /\ ret # None
  /\ Val(ret).direction = "SHORT"
  /\ Val(ret).pnl # Some(0)
  /\ completed_trades[Len(completed_trades)] = Val(ret)

\* C16: a process_bar call with a bar whose high is below its low is
\* rejected: the volume history, the open slot and completed_trades stay as
\* they were and no trade is opened or closed.
C16_MalformedRejected ==
  [][(last'.op = "process_bar" /\ last'.bar.high < last'.bar.low)
       => /\ volume_history' = volume_history
          /\ open_trades' = open_trades
          /\ completed_trades' = completed_trades
          /\ n_trades' = n_trades]_vars

\* What the engine holds for one instrument, Trade objects without identity.
StripId(o) == IF o = None THEN None ELSE Some([Val(o) EXCEPT !.id = 0])
ClosedOf(t) ==
  LET own == SelectSeq(completed_trades, LAMBDA tr : tr.ticker = t)
  IN [i \in 1..Len(own) |-> [own[i] EXCEPT !.id = 0]]
Proj(t) == [levels |-> premarket_levels[t], history |-> volume_history[t],
            open |-> StripId(open_trades[t]), closed |-> ClosedOf(t)]

\* C17: a call for one instrument leaves the levels, the volume history, the
\* open trade and the sequence of closed trades of every other instrument
\* unchanged, and changes its own instrument's exactly as the same call does
\* on an engine that has only ever seen that instrument's calls; so the
\* per-instrument results do not depend on how the calls are interleaved.
C17_InstrumentsIndependent ==
  [][\A t \in tickers :
       IF last'.ticker = t
       THEN /\ last'.op = "process_bar" => Proj(t)' = SoloProcessBar(Proj(t), t, last'.bar)
            /\ last'.op = "update_premarket_levels" => Proj(t)' = SoloUpdate(Proj(t), last'.data)
       ELSE Proj(t)' = Proj(t)]_vars

\* C17 witness: both instruments have traded, and their trades were closed
\* in the opposite order to the one they were opened in.
C17_Witness ==
  /\ IsProcessBar
  /\ Len(completed_trades) = 2
  /\ completed_trades[1].ticker # completed_trades[2].ticker
  /\ completed_trades[1].id > completed_trades[2].id
  /\ ret = Some(completed_trades[2])

\* Every Trade object the engine holds.
AllTrades ==
  {completed_trades[i] : i \in 1..Len(completed_trades)}
    \cup {Val(open_trades[t]) : t \in {u \in tickers : open_trades[u] # None}}

\* C18: every trade has stop_loss < entry_price < take_profit if LONG and
\* take_profit < entry_price < stop_loss if SHORT; a trade closed at its
\* stop_loss has pnl < 0 and a trade closed at its take_profit has pnl > 0.
C18_BracketOrdering ==
  \A tr \in AllTrades :
    /\ tr.direction = "LONG" => (tr.stop_loss < tr.entry_price /\ tr.entry_price < tr.take_profit)
    /\ tr.direction = "SHORT" => (tr.take_profit < tr.entry_price /\ tr.entry_price < tr.stop_loss)
    /\ tr.exit_price = Some(tr.stop_loss) => Val(tr.pnl) < 0
    /\ tr.exit_price = Some(tr.take_profit) => Val(tr.pnl) > 0

\* C18 witness: the log holds a LONG trade closed at its take_profit with a
\* positive pnl.
C18_Witness ==
  \E tr \in AllTrades :
    /\ tr.direction = "LONG"
    /\ tr.exit_price = Some(tr.take_profit)
    /\ Val(tr.pnl) > 0

\* C19: a process_bar call for an instrument whose open trade is SHORT
\* always closes that trade, so a SHORT trade is closed by the first bar
\* processed after its entry bar.
C19_ShortClosedByNextBar ==
  [][\A t \in tickers :
       (/\ last'.op = "process_bar" /\ last'.ticker = t
        /\ open_trades[t] # None
        /\ Val(open_trades[t]).direction = "SHORT")
       => /\ ret' # None
          /\ Val(ret').id = Val(open_trades[t]).id
          /\ open_trades'[t] = None]_vars

\* C19 witness: a SHORT trade has just been closed at its take_profit by a
\* bar whose low is above the trade's stop_loss.
C19_Witness ==
  /\ IsProcessBar
  /\ ret # None
  /\ Val(ret).direction = "SHORT"
  /\ last.bar.low > Val(ret).stop_loss
  /\ last.bar.high >= Val(ret).take_profit
  /\ Val(ret).exit_price = Some(Val(ret).take_profit)

\* C20: an open trade stays in its slot unchanged through every call except
\* the process_bar call for its instrument that closes it, and that call
\* changes none of entry_price, stop_loss, take_profit and entry_time.
C20_OpenTradeFixed ==
  [][\A t \in tickers : open_trades[t] # None =>
       \/ open_trades'[t] = open_trades[t]
       \/ /\ last'.op = "process_bar" /\ last'.ticker = t
          /\ open_trades'[t] = None
          /\ ret' # None
          /\ Val(ret').id = Val(open_trades[t]).id
          /\ Val(ret').entry_price = Val(open_trades[t]).entry_price
          /\ Val(ret').stop_loss = Val(open_trades[t]).stop_loss
          /\ Val(ret').take_profit = Val(open_trades[t]).take_profit
          /\ Val(ret').entry_time = Val(open_trades[t]).entry_time]_vars

\* C20 witness: after a new session began, update_premarket_levels stored
\* levels other than those the open LONG trade's stop was computed from, and
\* the trade is still open with that stop.
C20_Witness ==
  /\ IsUpdate
  /\ pm_supplied[last.ticker]
  /\ InWindow(last.data) # {}
  /\ open_trades[last.ticker] # None
  /\ Val(open_trades[last.ticker]).direction = "LONG"
  /\ Val(open_trades[last.ticker]).stop_loss
       # (Val(premarket_levels[last.ticker]).high \div 1000) * 999
  /\ Len(volume_history[last.ticker]) >= 2

====
